---- MODULE Spec2Model ----
(***************************************************************************)
(* Model of gwt_deserializer.py: the classifier, the request decoder, the  *)
(* response decoder, auto_parse and the rendering choice made by main().   *)
(*                                                                         *)
(* A Python str is a sequence of one-character strings.  A Python dict is  *)
(* a record whose DOMAIN is the set of keys present.  A Python value       *)
(* (None, int, bool, list, str) is a record tagged by its type in field t. *)
(* A raised exception is the record [raised |-> <class name>].             *)
(***************************************************************************)
EXTENDS Integers, Sequences, FiniteSets, TLC

VARIABLES pc, args, data, result, stdout

vars == <<pc, args, data, result, stdout>>

(***************************************************************************)
(* Bounds of the input space.                                              *)
(***************************************************************************)
MaxShort == 3   \* longest text drawn from all strings over ShortChars
MaxRest  == 3   \* most fields following the three header fields
MaxBody  == 3   \* most lexical chunks in a response body

(***************************************************************************)
(* Python values.                                                          *)
(***************************************************************************)
None == [t |-> "NoneType"]
PyInt(n) == [t |-> "int", v |-> n]
PyBool(b) == [t |-> "bool", v |-> b]
PyList(xs) == [t |-> "list", v |-> xs]
PyStr(s) == [t |-> "str", v |-> s]
IsNone(x) == x.t = "NoneType"

Raise(e) == [raised |-> e]
IsRaise(x) == "raised" \in DOMAIN x

Min(a, b) == IF a < b THEN a ELSE b
Max(a, b) == IF a > b THEN a ELSE b

(***************************************************************************)
(* str methods and slicing.  Whitespace holds the whitespace characters    *)
(* that occur in the modelled inputs; str.strip, int() and json.loads      *)
(* agree on them.                                                          *)
(***************************************************************************)
Whitespace == {" ", "\n", "\t", "\r"}

RECURSIVE lstrip_chars(_, _)
lstrip_chars(s, chars) ==
    IF s # <<>> /\ Head(s) \in chars THEN lstrip_chars(Tail(s), chars) ELSE s

RECURSIVE rstrip_chars(_, _)
rstrip_chars(s, chars) ==
    IF s # <<>> /\ s[Len(s)] \in chars
    THEN rstrip_chars(SubSeq(s, 1, Len(s) - 1), chars)
    ELSE s

strip_chars(s, chars) == rstrip_chars(lstrip_chars(s, chars), chars)

lstrip(s) == lstrip_chars(s, Whitespace)

strip_left_only(s) == lstrip_chars(s, Whitespace)
strip(s) == strip_chars(s, Whitespace)

startswith(s, p) == Len(s) >= Len(p) /\ SubSeq(s, 1, Len(p)) = p

contains(s, c) == \E i \in 1..Len(s) : s[i] = c

RECURSIVE split(_, _)
split(s, sep) ==
    IF ~contains(s, sep)
    THEN <<s>>
    ELSE LET i == CHOOSE k \in 1..Len(s) :
                      s[k] = sep /\ \A j \in 1..(k - 1) : s[j] # sep
         IN  <<SubSeq(s, 1, i - 1)>> \o split(SubSeq(s, i + 1, Len(s)), sep)

\* seq[a:b] with Python's rules: a negative bound counts from the end and
\* every bound is clamped to 0..len.  Bounds are 0-based.
SliceBound(i, n) == IF i < 0 THEN Max(i + n, 0) ELSE Min(i, n)

Slice(s, a, b) ==
    LET lo == SliceBound(a, Len(s))
        hi == SliceBound(b, Len(s))
    IN  IF lo >= hi THEN <<>> ELSE SubSeq(s, lo + 1, hi)

SliceFrom(s, a) ==
    LET lo == SliceBound(a, Len(s))
    IN  IF lo >= Len(s) THEN <<>> ELSE SubSeq(s, lo + 1, Len(s))

(***************************************************************************)
(* int(str): surrounding whitespace is ignored, one optional sign, then    *)
(* decimal digits, single underscores allowed between digits.  Anything    *)
(* else raises ValueError.                                                 *)
(***************************************************************************)
DigitSeq == <<"0", "1", "2", "3", "4", "5", "6", "7", "8", "9">>
Digits == {DigitSeq[i] : i \in 1..10}
DigitVal(c) == (CHOOSE i \in 1..10 : DigitSeq[i] = c) - 1

ValidDigits(b) ==
    /\ Len(b) > 0
    /\ \A i \in 1..Len(b) : b[i] \in Digits \cup {"_"}
    /\ b[1] # "_"
    /\ b[Len(b)] # "_"
    /\ \A i \in 1..(Len(b) - 1) : ~(b[i] = "_" /\ b[i + 1] = "_")

RECURSIVE DigitsValue(_, _)
DigitsValue(b, acc) ==
    IF b = <<>> THEN acc
    ELSE IF Head(b) = "_" THEN DigitsValue(Tail(b), acc)
    ELSE DigitsValue(Tail(b), 10 * acc + DigitVal(Head(b)))

int(s) ==
    LET t == strip(s)
        signed == t # <<>> /\ t[1] \in {"+", "-"}
        body == IF signed THEN Tail(t) ELSE t
        mag == DigitsValue(body, 0)
    IN  IF ValidDigits(body)
        THEN PyInt(IF signed /\ t[1] = "-" THEN 0 - mag ELSE mag)
        ELSE Raise("ValueError")

(***************************************************************************)
(* json.loads on the lexical forms that occur in the modelled inputs:      *)
(* arrays, integers, null, true, false and JSON whitespace.  Any other     *)
(* character where a value is expected is a decode error, as in the        *)
(* library (strings, objects, fractions and exponents need characters      *)
(* that the input alphabet below does not contain).                        *)
(***************************************************************************)
JsonWhitespace == {" ", "\t", "\n", "\r"}

RECURSIVE skip_ws(_, _)
skip_ws(s, p) ==
    IF p <= Len(s) /\ s[p] \in JsonWhitespace THEN skip_ws(s, p + 1) ELSE p

RECURSIVE DigitRunEnd(_, _)
DigitRunEnd(s, p) ==
    IF p <= Len(s) /\ s[p] \in Digits THEN DigitRunEnd(s, p + 1) ELSE p

\* position after the integer literal at p, or 0 when none starts there
NumberEnd(s, p) ==
    LET q == IF p <= Len(s) /\ s[p] = "-" THEN p + 1 ELSE p
    IN  IF q > Len(s) \/ s[q] \notin Digits THEN 0
        ELSE IF s[q] = "0" THEN q + 1
        ELSE DigitRunEnd(s, q)

ScanFail == [ok |-> FALSE, v |-> None, end |-> 0]
ScanOk(val, e) == [ok |-> TRUE, v |-> val, end |-> e]

Literal(s, p, word) ==
    p + Len(word) - 1 <= Len(s) /\ SubSeq(s, p, p + Len(word) - 1) = word

RECURSIVE scan_once(_, _)
RECURSIVE array_items(_, _, _)

scan_once(s, p) ==
    IF p > Len(s) THEN ScanFail
    ELSE IF s[p] = "[" THEN
        LET q == skip_ws(s, p + 1)
        IN  IF q <= Len(s) /\ s[q] = "]"
            THEN ScanOk(PyList(<<>>), q + 1)
            ELSE array_items(s, q, <<>>)
    ELSE IF Literal(s, p, <<"n", "u", "l", "l">>) THEN ScanOk(None, p + 4)
    ELSE IF Literal(s, p, <<"t", "r", "u", "e">>) THEN ScanOk(PyBool(TRUE), p + 4)
    ELSE IF Literal(s, p, <<"f", "a", "l", "s", "e">>) THEN ScanOk(PyBool(FALSE), p + 5)
    ELSE IF NumberEnd(s, p) # 0 THEN
        LET e == NumberEnd(s, p)
        IN  ScanOk(int(SubSeq(s, p, e - 1)), e)
    ELSE ScanFail

array_items(s, p, acc) ==
    LET r == scan_once(s, p)
    IN  IF ~r.ok THEN ScanFail
        ELSE LET q == skip_ws(s, r.end)
             IN  IF q > Len(s) THEN ScanFail
                 ELSE IF s[q] = "]" THEN ScanOk(PyList(Append(acc, r.v)), q + 1)
                 ELSE IF s[q] # "," THEN ScanFail
                 ELSE array_items(s, skip_ws(s, q + 1), Append(acc, r.v))

json_loads(s) ==
    LET r == scan_once(s, skip_ws(s, 1))
    IN  IF ~r.ok THEN Raise("JSONDecodeError")
        ELSE IF skip_ws(s, r.end) # Len(s) + 1 THEN Raise("JSONDecodeError")
        ELSE r.v

(***************************************************************************)
(* The classifier.                                                         *)
(***************************************************************************)
OK_MARK == <<"/", "/", "O", "K">>
EX_MARK == <<"/", "/", "E", "X">>

is_probable_gwt_response_no_lstrip(d) ==
    startswith(d, OK_MARK) \/ startswith(d, EX_MARK)
is_probable_gwt_response(d) ==
    LET t == lstrip(d)
    IN  startswith(t, OK_MARK) \/ startswith(t, EX_MARK)

is_probable_gwt_request(d) ==
    contains(d, "|") /\ ~is_probable_gwt_response(d)

(***************************************************************************)
(* parse_gwt_request                                                       *)
(***************************************************************************)
RequestNotes == <<"This is a *partial* GWT-RPC parser focused on readability.",
                  "Header and string table should be accurate; payload interpretation is basic.">>
NotEnoughFields == "Not enough fields for a valid GWT-RPC request."
NotIntegers == "First three fields are not integers (version|flags|tableSize)."

EmptyDict == [k \in {} |-> None]

\* the list of fields: payload.strip().strip("|").split("|")
request_parts(payload) == split(strip_chars(strip(payload), {"|"}), "|")

too_few_fields_le(parts) == Len(parts) <= 3
too_few_fields(parts) == Len(parts) < 3

\* for idx, value in enumerate(string_entries): append {index, value}
build_table(string_entries) ==
    [i \in 1..Len(string_entries) |->
        [index |-> i - 1, value |-> string_entries[i]]]

\* the body of the token loop for one non-empty token
interpret_token_uncaught(token, indexed_table) ==
    LET num == int(token)
    IN  IF IsRaise(num) THEN num
        ELSE IF 0 <= num.v /\ num.v < Len(indexed_table)
        THEN [token |-> token, as_index |-> num.v,
              string_value |-> indexed_table[num.v + 1].value]
        ELSE [token |-> token]
interpret_token_positive(token, indexed_table) ==
    LET num == int(token)
    IN  IF IsRaise(num)
        THEN IF num.raised = "ValueError" THEN [token |-> token] ELSE num
        ELSE IF 0 < num.v /\ num.v < Len(indexed_table)
        THEN [token |-> token, as_index |-> num.v,
              string_value |-> indexed_table[num.v + 1].value]
        ELSE [token |-> token]
interpret_token(token, indexed_table) ==
    LET num == int(token)
    IN  IF IsRaise(num)
        THEN IF num.raised = "ValueError" THEN [token |-> token] ELSE num
        ELSE IF 0 <= num.v /\ num.v < Len(indexed_table)
        THEN [token |-> token, as_index |-> num.v,
              string_value |-> indexed_table[num.v + 1].value]
        ELSE [token |-> token]

RECURSIVE interpret_payload(_, _)
interpret_payload(remaining, indexed_table) ==
    IF remaining = <<>> THEN <<>>
    ELSE IF Head(remaining) = <<>>
    THEN interpret_payload(Tail(remaining), indexed_table)
    ELSE <<interpret_token(Head(remaining), indexed_table)>>
             \o interpret_payload(Tail(remaining), indexed_table)

parse_gwt_request(payload) ==
    LET parts == request_parts(payload)
        base == [kind |-> "request",
                 raw |-> strip(payload),
                 header |-> EmptyDict,
                 string_table |-> <<>>,
                 payload_tokens |-> <<>>,
                 notes |-> RequestNotes]
    IN  IF too_few_fields(parts)
        THEN [error |-> NotEnoughFields] @@ base
        ELSE
        LET version == int(parts[1])
            flags == int(parts[2])
            table_size == int(parts[3])
            thrown == IF IsRaise(version) THEN version
                      ELSE IF IsRaise(flags) THEN flags
                      ELSE IF IsRaise(table_size) THEN table_size
                      ELSE None
        IN  IF IsRaise(thrown)
            THEN IF thrown.raised = "ValueError"
                 THEN [error |-> NotIntegers] @@ base
                 ELSE thrown
            ELSE
            LET string_start == 3
                string_end == string_start + table_size.v
                string_entries == Slice(parts, string_start, string_end)
                indexed_table == build_table(string_entries)
                remaining == SliceFrom(parts, string_end)
                interpreted_payload == interpret_payload(remaining, indexed_table)
                escaped == {i \in 1..Len(interpreted_payload) :
                               IsRaise(interpreted_payload[i])}
            IN  IF escaped # {}
                THEN interpreted_payload[CHOOSE i \in escaped :
                                             \A j \in escaped : i <= j]
                ELSE [kind |-> "request",
                      raw |-> strip(payload),
                      header |-> [version |-> version.v,
                                  flags |-> flags.v,
                                  string_table_size |-> table_size.v],
                      string_table |-> indexed_table,
                      payload_tokens |-> interpreted_payload,
                      notes |-> RequestNotes]

(***************************************************************************)
(* parse_gwt_response                                                      *)
(***************************************************************************)
ResponseNotes == <<"GWT-RPC responses are typically JSON arrays with type info.",
                   "This tool just makes them readable; you still need to interpret semantics.">>

response_prefix_unstripped(payload) == Slice(payload, 0, 4)
response_prefix(payload) == Slice(strip(payload), 0, 4)

response_status(prefix) ==
    IF startswith(prefix, OK_MARK) THEN "ok" ELSE "exception"

parse_gwt_response(payload) ==
    LET raw == strip(payload)
        prefix == response_prefix(payload)
        body == lstrip(SliceFrom(raw, 4))
        base == [kind |-> "response",
                 raw |-> raw,
                 prefix |-> prefix,
                 status |-> response_status(prefix),
                 parsed_json |-> None,
                 json_error |-> None,
                 notes |-> ResponseNotes]
        parsed == json_loads(body)
    IN  IF IsRaise(parsed)
        THEN [json_error |-> PyStr("Failed to parse JSON: " \o parsed.raised),
              raw_body |-> body] @@ base
        ELSE [parsed_json |-> parsed] @@ base

(***************************************************************************)
(* auto_parse                                                              *)
(***************************************************************************)
UnknownError == "Does not look like GWT-RPC request or //OK//EX response."

auto_parse(payload) ==
    IF is_probable_gwt_response(payload) THEN parse_gwt_response(payload)
    ELSE IF is_probable_gwt_request(payload) THEN parse_gwt_request(payload)
    ELSE [kind |-> "unknown",
          raw |-> strip(payload),
          error |-> UnknownError]

(***************************************************************************)
(* The texts read_input can deliver.  Plain strings of four families:      *)
(* every short string over ShortChars, pipe-joined field lists,            *)
(* marker-prefixed bodies, and a few fixed samples.                        *)
(***************************************************************************)
SeqsUpTo(S, n) == UNION {[1..k -> S] : k \in 0..n}

RECURSIVE Concat(_)
Concat(ss) == IF Len(ss) = 0 THEN <<>> ELSE Head(ss) \o Concat(Tail(ss))

RECURSIVE Join(_, _)
Join(fs, sep) ==
    IF Len(fs) = 0 THEN <<>>
    ELSE IF Len(fs) = 1 THEN Head(fs)
    ELSE Head(fs) \o <<sep>> \o Join(Tail(fs), sep)

ShortChars == {" ", "\n", "|", "1", "a"}
ShortInputs == SeqsUpTo(ShortChars, MaxShort)

VersionChoices == {<<"7">>, <<"a">>}
SizeChoices == {<<"0">>, <<"1">>, <<"2">>, <<"-", "1">>, <<"-", "4">>, <<"x">>}
RestChoices == {<<>>, <<"0">>, <<"1">>, <<"b">>}
RequestWraps == {<< <<>>, <<>> >>,
                 << <<>>, <<"|">> >>,
                 << <<" ">>, <<"|", "\n">> >>}

RequestInputs ==
    {w[1] \o Join(<<v, <<"0">>, z>> \o rest, "|") \o w[2] :
        v \in VersionChoices, z \in SizeChoices,
        rest \in SeqsUpTo(RestChoices, MaxRest), w \in RequestWraps}

Markers == {OK_MARK, EX_MARK}
JsonChunks == {<<"[">>, <<"]">>, <<",">>, <<"1">>, <<"n", "u", "l", "l">>, <<" ">>}

LeadPads == {<<>>, <<" ">>}
TrailPads == {<<>>, <<"\n">>}

ResponseInputs ==
    {a \o m \o Concat(chunks) \o b :
        a \in LeadPads, b \in TrailPads, m \in Markers,
        chunks \in SeqsUpTo(JsonChunks, MaxBody)}

SampleInputs ==
    {<<"7", "|", "0", "|", "2", "|", "f", "o", "o", "|", "b", "a", "r", "|", "0", "|", "1", "|">>,
     <<"7", "|", "|", "0">>,
     <<"7", "|", "0", "|", "1", "|", "b", "|", " ", "0", "|", "-", "3", "|", "1", "_", "0", "|", "z">>,
     <<"/", "/", "O", "K", "|">>,
     <<"/", "/", "O", "K", "[", "1", ",", "-", "2", "0", ",", "[", "t", "r", "u", "e", "]", "]">>,
     <<"/", "/", "E", "X", " ", "n", "o", "t", "-", "j", "s", "o", "n">>,
     <<"/", "/", "O", "K", "0", "1">>,
     <<"/", "/", "o", "k", "[", "]">>,
     <<"x", "/", "/", "O", "K", "|">>,
     <<" ", "/", "/", "E", "X", "|", "1">>}

Inputs == ShortInputs \cup RequestInputs \cup ResponseInputs \cup SampleInputs

(***************************************************************************)
(* The program.  main(): parse_args, read_input, auto_parse, print.  The   *)
(* two decoders are module-level functions and can also be called          *)
(* directly with any text.  args.pretty is never read by main, so only     *)
(* args.raw_json is kept.                                                  *)
(***************************************************************************)
Init ==
    /\ pc = "start"
    /\ args = [raw_json |-> FALSE]
    /\ data = <<>>
    /\ result = None
    /\ stdout = <<>>

\* args = parser.parse_args()
ParseArgs ==
    /\ pc = "start"
    /\ \E r \in BOOLEAN : args' = [raw_json |-> r]
    /\ pc' = "args"
    /\ UNCHANGED <<data, result, stdout>>

\* data = read_input(args.file)
ReadInput ==
    /\ pc = "args"
    /\ \E text \in Inputs : data' = text
    /\ pc' = "read"
    /\ UNCHANGED <<args, result, stdout>>

\* result = auto_parse(data)
AutoParse ==
    /\ pc = "read"
    /\ LET r == auto_parse(data)
       IN  /\ result' = r
           /\ pc' = IF IsRaise(r) THEN "crashed" ELSE "parsed"
    /\ UNCHANGED <<args, data, stdout>>

raw_json_applies(a, res) ==
    a.raw_json /\ res.kind = "response" /\ ~IsNone(res.parsed_json)

\* print(json.dumps(result["parsed_json"], ...)); return
PrintParsedJson ==
    /\ pc = "parsed"
    /\ raw_json_applies(args, result)
    /\ stdout' = Append(stdout, [dumped |-> "parsed_json", value |-> result.parsed_json])
    /\ pc' = "done"
    /\ UNCHANGED <<args, data, result>>

\* print(json.dumps(result, ...))
PrintResult ==
    /\ pc = "parsed"
    /\ ~raw_json_applies(args, result)
    /\ stdout' = Append(stdout, [dumped |-> "result", value |-> result])
    /\ pc' = "done"
    /\ UNCHANGED <<args, data, result>>

\* a direct call parse_gwt_request(text)
CallParseRequest ==
    /\ pc = "start"
    /\ \E text \in Inputs :
          LET r == parse_gwt_request(text)
          IN  /\ data' = text
              /\ result' = r
              /\ pc' = IF IsRaise(r) THEN "crashed" ELSE "decoded"
    /\ UNCHANGED <<args, stdout>>

\* a direct call parse_gwt_response(text)
CallParseResponse ==
    /\ pc = "start"
    /\ \E text \in Inputs :
          LET r == parse_gwt_response(text)
          IN  /\ data' = text
              /\ result' = r
              /\ pc' = IF IsRaise(r) THEN "crashed" ELSE "decoded"
    /\ UNCHANGED <<args, stdout>>

Next ==
    \/ ParseArgs
    \/ ReadInput
    \/ AutoParse
    \/ PrintParsedJson
    \/ PrintResult
    \/ CallParseRequest
    \/ CallParseResponse

Spec == Init /\ [][Next]_vars

(***************************************************************************)
(* Properties.                                                             *)
(***************************************************************************)
HasResult == pc \in {"parsed", "done", "decoded"}
ViaAutoParse == pc \in {"parsed", "done"}
IsRequestResult == HasResult /\ result.kind = "request"
IsResponseResult == HasResult /\ result.kind = "response"
HasError(res) == "error" \in DOMAIN res
NonEmptyField(f) == f # <<>>

\* the text d, once its leading whitespace is skipped, begins with marker m
StartsAfterTrim(d, m) ==
    \E k \in 0..Len(d) :
        /\ \A i \in 1..k : d[i] \in Whitespace
        /\ Len(d) >= k + Len(m)
        /\ SubSeq(d, k + 1, k + Len(m)) = m

\* r is s without its leading and trailing whitespace
IsTrimOf(r, s) ==
    \E i \in 1..(Len(s) + 1) : \E j \in 0..Len(s) :
        /\ r = SubSeq(s, i, j)
        /\ \A k \in 1..(i - 1) : s[k] \in Whitespace
        /\ \A k \in (j + 1)..Len(s) : s[k] \in Whitespace
        /\ r # <<>> => (r[1] \notin Whitespace /\ r[Len(r)] \notin Whitespace)

\* C1: auto_parse never raises; it returns one result whose kind is
\* response, request or unknown, the kind the classifier functions select,
\* and an unknown result carries the fixed error message.
C1_AutoParseTotal ==
    /\ pc # "crashed"
    /\ ViaAutoParse =>
          /\ ~IsRaise(result)
          /\ result.kind \in {"response", "request", "unknown"}
          /\ result.kind =
                 IF is_probable_gwt_response(data) THEN "response"
                 ELSE IF is_probable_gwt_request(data) THEN "request"
                 ELSE "unknown"
          /\ result.kind = "unknown" =>
                 (HasError(result) /\ result.error = UnknownError)

\* auto_parse absorbed a decode failure into a request result
C1_Witness ==
    /\ pc = "parsed"
    /\ result.kind = "request"
    /\ \E k \in 1..Len(result.payload_tokens) :
           IsRaise(int(result.payload_tokens[k].token))

\* C2: text that starts, after its leading whitespace, with //OK or //EX is
\* a response; any other text containing a pipe is a request; every other
\* text is unknown.
C2_ClassifierVerdict ==
    ViaAutoParse =>
        result.kind =
            IF StartsAfterTrim(data, OK_MARK) \/ StartsAfterTrim(data, EX_MARK)
            THEN "response"
            ELSE IF \E i \in 1..Len(data) : data[i] = "|"
            THEN "request"
            ELSE "unknown"

\* first match wins: a marker-prefixed text that also holds a pipe, after
\* leading whitespace, is a response
C2_Witness ==
    /\ ViaAutoParse
    /\ result.kind = "response"
    /\ contains(data, "|")
    /\ data[1] \in Whitespace

\* C3 as stated: every pipeline result's raw field equals the input text
\* character for character.
C3_RawVerbatim ==
    ViaAutoParse => result.raw = data

\* C3 amended: every pipeline result's raw field is the input text with its
\* leading and trailing whitespace removed, otherwise unmodified.
C3_RawTrimmed ==
    ViaAutoParse => IsTrimOf(result.raw, data)

\* a request result whose input had trailing whitespace to remove
C3_Witness ==
    /\ ViaAutoParse
    /\ result.kind = "request"
    /\ result.raw # data
    /\ data[Len(data)] \in Whitespace

\* C4: in every response result exactly one of parsed_json and json_error
\* is present (not None).
C4_ExactlyOneOutcome ==
    IsResponseResult =>
        (IsNone(result.parsed_json) # IsNone(result.json_error))

\* C5: for every request with an integer header, the string table has
\* min(string_table_size, fields after the header) entries, indexed
\* 0..len-1 in order, entry i holding field 3+i.
C5_TableLength ==
    (IsRequestResult /\ ~HasError(result)) =>
        LET parts == request_parts(data)
            table == result.string_table
        IN  /\ Len(table) = Min(result.header.string_table_size, Len(parts) - 3)
            /\ \A i \in 1..Len(table) :
                   /\ table[i].index = i - 1
                   /\ table[i].value = parts[3 + i]

\* C6: a payload token carries as_index and string_value exactly when it
\* parses as an integer n with 0 <= n < len(string_table); then as_index is
\* n and string_value is entry n's value; otherwise it has only its text.
C6_TokenEnrichment ==
    IsRequestResult =>
        \A k \in 1..Len(result.payload_tokens) :
            LET item == result.payload_tokens[k]
                table == result.string_table
                n == int(item.token)
                inrange == ~IsRaise(n) /\ 0 <= n.v /\ n.v < Len(table)
            IN  /\ ("as_index" \in DOMAIN item) <=> inrange
                /\ ("string_value" \in DOMAIN item) <=> inrange
                /\ inrange => /\ item.as_index = n.v
                              /\ item.string_value = table[n.v + 1].value
                /\ ~inrange => DOMAIN item = {"token"}

\* one result with an enriched token, a numeric token out of range and a
\* non-numeric token
C6_Witness ==
    /\ IsRequestResult
    /\ \E k \in 1..Len(result.payload_tokens) :
           "as_index" \in DOMAIN result.payload_tokens[k]
    /\ \E k \in 1..Len(result.payload_tokens) :
           /\ ~IsRaise(int(result.payload_tokens[k].token))
           /\ DOMAIN result.payload_tokens[k] = {"token"}
    /\ \E k \in 1..Len(result.payload_tokens) :
           /\ IsRaise(int(result.payload_tokens[k].token))
           /\ DOMAIN result.payload_tokens[k] = {"token"}

\* C7: fewer than three fields, or a non-integer among the first three,
\* gives an error (a different message for each) with header, string_table
\* and payload_tokens empty; otherwise there is no error and the header has
\* version, flags and string_table_size.
C7_RequestErrors ==
    IsRequestResult =>
        LET parts == request_parts(data)
            few == Len(parts) < 3
            badint == ~few /\ \E i \in 1..3 : IsRaise(int(parts[i]))
            empty == /\ DOMAIN result.header = {}
                     /\ Len(result.string_table) = 0
                     /\ Len(result.payload_tokens) = 0
        IN  /\ few => (HasError(result) /\ result.error = NotEnoughFields /\ empty)
            /\ badint => (HasError(result) /\ result.error = NotIntegers /\ empty)
            /\ (~few /\ ~badint) =>
                   /\ ~HasError(result)
                   /\ DOMAIN result.header = {"version", "flags", "string_table_size"}
            /\ NotEnoughFields # NotIntegers

\* a header type error on a text with fields after the header
C7_Witness ==
    /\ IsRequestResult
    /\ Len(request_parts(data)) > 3
    /\ HasError(result)
    /\ result.error = NotIntegers

\* C8: with --raw-json, a response decoded without json_error prints only
\* the decoded body; any other result prints the full structure.
C8_RawJsonPrintsBody ==
    (pc = "done" /\ args.raw_json) =>
        /\ Len(stdout) = 1
        /\ stdout[1].dumped =
               IF result.kind = "response" /\ IsNone(result.json_error)
               THEN "parsed_json"
               ELSE "result"

\* C9: for every request with an integer header, payload_tokens is the
\* sequence of non-empty fields after the string-table slice, in order.
C9_PayloadPartition ==
    (IsRequestResult /\ ~HasError(result)) =>
        LET parts == request_parts(data)
            after == SubSeq(parts, 4 + Len(result.string_table), Len(parts))
            tokens == [k \in 1..Len(result.payload_tokens) |->
                          result.payload_tokens[k].token]
        IN  tokens = SelectSeq(after, NonEmptyField)

\* C10: a response returned by auto_parse has prefix //OK or //EX; status
\* is ok exactly for //OK and exception exactly for //EX.
C10_PrefixAndStatus ==
    (ViaAutoParse /\ result.kind = "response") =>
        /\ result.prefix \in {OK_MARK, EX_MARK}
        /\ Len(result.prefix) = 4
        /\ (result.status = "ok") <=> (result.prefix = OK_MARK)
        /\ (result.status = "exception") <=> (result.prefix = EX_MARK)

\* an exception response whose text began and ended with whitespace
C10_Witness ==
    /\ ViaAutoParse
    /\ result.kind = "response"
    /\ data[1] \in Whitespace
    /\ data[Len(data)] \in Whitespace
    /\ result.status = "exception"

====
